---- MODULE Spec2Model ----
(***************************************************************************)
(* Model of src/main.py (potholes-little-rock): one fetch of open pothole  *)
(* records, a marker map saved to map.html and a dashboard of the streets  *)
(* and intersections with the most potholes saved to stats.html.           *)
(*                                                                         *)
(* Strings are sequences of one-character strings, so that upper(),        *)
(* strip(), re.sub and replace are computed character by character.        *)
(***************************************************************************)
EXTENDS Naturals, Integers, Sequences, FiniteSets, TLC

(***************************************************************************)
(* Bounds of the model                                                     *)
(***************************************************************************)
\* longest address, in tokens, of the normalisation specification
MaxTokens == 3
\* longest record list enumerated exhaustively over the pool
MaxRecords == 3
\* largest number of distinct generated keys in a long record list
MaxCrowd == 11
\* largest number of occurrences of each generated key
MaxRep == 2

(***************************************************************************)
(* Program constants                                                       *)
(***************************************************************************)
\* Counter(street_names).most_common(10)
TopStreets == 10
\* Counter(intersections).most_common(10)
TopIntersections == 10
\* response.status_code != 200
StatusOK == 200

(***************************************************************************)
(* Characters and strings                                                  *)
(***************************************************************************)
LowerCase == <<"a","b","c","d","e","f","g","h","i","j","k","l","m",
               "n","o","p","q","r","s","t","u","v","w","x","y","z">>
UpperCase == <<"A","B","C","D","E","F","G","H","I","J","K","L","M",
               "N","O","P","Q","R","S","T","U","V","W","X","Y","Z">>
Digits == {"0","1","2","3","4","5","6","7","8","9"}
WhiteSpace == {" ", "\t"}

IsLower(c) == \E k \in 1..26 : LowerCase[k] = c

\* str.upper() on one character
UpperChar(c) ==
  IF IsLower(c) THEN UpperCase[CHOOSE k \in 1..26 : LowerCase[k] = c] ELSE c

\* the address left in the case it came in
UpperOmitted(s) == s

\* str.upper()
Upper(s) == [k \in 1..Len(s) |-> UpperChar(s[k])]

\* str.strip(): drop the leading and the trailing run of whitespace
Strip(s) ==
  LET keep == {k \in 1..Len(s) : s[k] \notin WhiteSpace}
  IN IF keep = {} THEN <<>>
     ELSE LET lo == CHOOSE k \in keep : \A m \in keep : k <= m
              hi == CHOOSE k \in keep : \A m \in keep : k >= m
          IN SubSeq(s, lo, hi)

\* sub in s: the substring test of the "in" operator
Contains(s, sub) ==
  \E k \in 1..(Len(s) + 1 - Len(sub)) : SubSeq(s, k, k + Len(sub) - 1) = sub

\* str(address).upper().strip()
UpperStrip(raw) == Strip(Upper(raw))

sAND == <<" ","A","N","D"," ">>
sBLOCKOF == <<"B","L","O","C","K"," ","O","F"," ">>

\* '&' in address or ' AND ' in address or '/' in address
IsIntersectionNoSlash(address) ==
  Contains(address, <<"&">>) \/ Contains(address, sAND)

IsIntersection(address) ==
  \/ Contains(address, <<"&">>)
  \/ Contains(address, sAND)
  \/ Contains(address, <<"/">>)

\* length of the run of characters of set cs that starts at position k
RECURSIVE RunLen(_, _, _)
RunLen(s, k, cs) ==
  IF k <= Len(s) /\ s[k] \in cs THEN 1 + RunLen(s, k + 1, cs) ELSE 0

\* re.sub(r'^\d+\s+', '', address)
StripHouseNumber(s) ==
  LET d == RunLen(s, 1, Digits)
      w == RunLen(s, d + 1, WhiteSpace)
  IN IF d >= 1 /\ w >= 1 THEN SubSeq(s, d + w + 1, Len(s)) ELSE s

\* str.replace(old, ""): one scan from the left, occurrences do not overlap
RECURSIVE RemoveAll(_, _)
RemoveAll(s, old) ==
  IF Len(s) < Len(old) THEN s
  ELSE IF SubSeq(s, 1, Len(old)) = old
       THEN RemoveAll(SubSeq(s, Len(old) + 1, Len(s)), old)
       ELSE <<s[1]>> \o RemoveAll(Tail(s), old)

\* str.replace(old, "", 1): only the first occurrence
RECURSIVE RemoveFirst(_, _)
RemoveFirst(s, old) ==
  IF Len(s) < Len(old) THEN s
  ELSE IF SubSeq(s, 1, Len(old)) = old
       THEN SubSeq(s, Len(old) + 1, Len(s))
       ELSE <<s[1]>> \o RemoveFirst(Tail(s), old)

\* the two lines that clean a street name
CleanStreetFirstBlockOnly(address) ==
  RemoveFirst(StripHouseNumber(address), sBLOCKOF)

CleanStreet(address) == RemoveAll(StripHouseNumber(address), sBLOCKOF)

(***************************************************************************)
(* Values of the street_address field                                      *)
(***************************************************************************)
\* a record that has no street_address key (a NaN cell of the data frame)
ABSENT == <<"ABSENT">>
\* a record whose street_address is the JSON null (a None cell)
NULL == <<"NULL">>

\* Series.dropna() keeps a cell iff it is neither NaN nor None
IsNa(x) == x = ABSENT \/ x = NULL

aEmpty == <<>>
aMarkham1200 == <<"1","2","0","0"," ","W"," ","M","A","R","K","H","A","M">>
aMarkham1201 == <<"1","2","0","1"," ","w"," ","m","a","r","k","h","a","m">>
aMainAmp5th ==
  <<"M","A","I","N"," ","S","T"," ","&"," ","5","T","H"," ","S","T">>
aMainAnd5th ==
  <<"M","a","i","n"," ","S","t"," ","a","n","d"," ","5","t","h"," ","S","t">>
aBlockOfMain ==
  <<"1","2","3"," ","B","L","O","C","K"," ","O","F"," ","M","A","I","N"," ",
    "S","T">>
aBlockTwice ==
  <<"7"," ","B","L","O","C","K"," ","O","F"," ","B","L","O","C","K"," ",
    "O","F"," ","E","L","M">>
aBlockNested ==
  <<"B","L","O","C","K"," ","B","L","O","C","K"," ","O","F"," ","O","F"," ",
    "E","L","M">>
aTwoNumbers == <<" ","1","2"," ","3","4"," ","e","l","m","\t">>
aTrailingAnd == <<"O","A","K"," ","A","N","D"," ">>
aGrand == <<"G","R","A","N","D">>
aKZ == <<"K","/","Z">>
aKST == <<"K"," ","S","T">>

kMarkham == <<"W"," ","M","A","R","K","H","A","M">>
kMain == <<"M","A","I","N"," ","S","T">>

NamedAddresses ==
  {aEmpty, aMarkham1200, aMarkham1201, aMainAmp5th, aMainAnd5th, aBlockOfMain,
   aBlockTwice, aBlockNested, aTwoNumbers, aTrailingAnd, aGrand, aKZ, aKST}

\* the pieces the addresses of the normalisation specification are built of
Tokens ==
  {<<"1","2">>, <<" ">>, sBLOCKOF, sAND, <<"A","N","D">>, <<"&">>, <<"/">>,
   <<"M","a","i","n">>, <<"b">>}

RECURSIVE TokenStrings(_)
TokenStrings(n) ==
  IF n = 0 THEN {<<>>}
  ELSE LET p == TokenStrings(n - 1)
       IN p \cup {s \o t : s \in p, t \in Tokens}

\* the non-null addresses the normalisation is applied to
Addresses == NamedAddresses \cup TokenStrings(MaxTokens)

(***************************************************************************)
(* Records and record lists                                                *)
(***************************************************************************)
\* a latitude/longitude pair float() accepts, and one it rejects
CoordOK == "34.7465"
CoordBad == "n/a"

Rec(a, lat) == [street_address |-> a, latitude |-> lat]

Pool ==
  {Rec(a, CoordOK) :
     a \in {ABSENT, NULL, aEmpty, aMarkham1200, aMarkham1201, aMainAmp5th,
            aMainAnd5th, aBlockOfMain, aKZ, aKST}}
  \cup {Rec(aMarkham1200, CoordBad)}

RECURSIVE SeqsUpTo(_, _)
SeqsUpTo(S, n) ==
  IF n = 0 THEN {<<>>}
  ELSE LET p == SeqsUpTo(S, n - 1)
       IN p \cup {Append(s, x) : s \in p, x \in S}

\* the k-th generated key: an intersection "A/Z", "B/Z", ... or a street
\* "A ST", "B ST", ...
CrowdKey(kind, k) ==
  IF kind = "intersection" THEN <<UpperCase[k], "/", "Z">>
  ELSE <<UpperCase[k], " ", "S", "T">>

\* m distinct generated keys, the whole round repeated r times
Crowd(kind, m, r) ==
  [i \in 1..(m * r) |-> Rec(CrowdKey(kind, ((i - 1) % m) + 1), CoordOK)]

ShortInputs == SeqsUpTo(Pool, MaxRecords)

CrowdInputs ==
  {Crowd(kind, m, r) \o t :
     kind \in {"intersection", "street"}, m \in 1..MaxCrowd, r \in 1..MaxRep,
     t \in SeqsUpTo(Pool, 1)}

\* the record lists response.json() can return
Inputs == ShortInputs \cup CrowdInputs

(***************************************************************************)
(* collections.Counter                                                     *)
(***************************************************************************)
\* Counter(list): <<key, count>> pairs in the order the keys are first seen
RECURSIVE CounterOf(_)
CounterOf(list) ==
  IF list = <<>> THEN <<>>
  ELSE LET init == CounterOf(SubSeq(list, 1, Len(list) - 1))
           x == list[Len(list)]
       IN IF \E k \in 1..Len(init) : init[k][1] = x
          THEN [k \in 1..Len(init) |->
                  IF init[k][1] = x THEN <<x, init[k][2] + 1>> ELSE init[k]]
          ELSE Append(init, <<x, 1>>)

\* one step of a stable sort by count, descending: e goes behind every item
\* whose count is at least its own
InsertDesc(sorted, e) ==
  LET ahead == {k \in 1..Len(sorted) : sorted[k][2] >= e[2]}
      n == Cardinality(ahead)
  IN SubSeq(sorted, 1, n) \o <<e>> \o SubSeq(sorted, n + 1, Len(sorted))

\* sorted(items, key=count, reverse=True), which is stable
RECURSIVE SortedDesc(_)
SortedDesc(items) ==
  IF items = <<>> THEN <<>>
  ELSE InsertDesc(SortedDesc(SubSeq(items, 1, Len(items) - 1)),
                  items[Len(items)])

\* a sort that puts the later of two items with equal counts first
InsertDescUnstable(sorted, e) ==
  LET ahead == {k \in 1..Len(sorted) : sorted[k][2] > e[2]}
      n == Cardinality(ahead)
  IN SubSeq(sorted, 1, n) \o <<e>> \o SubSeq(sorted, n + 1, Len(sorted))

RECURSIVE SortedDescUnstable(_)
SortedDescUnstable(items) ==
  IF items = <<>> THEN <<>>
  ELSE InsertDescUnstable(
         SortedDescUnstable(SubSeq(items, 1, Len(items) - 1)),
         items[Len(items)])

MostCommonUnstable(list, n) ==
  LET s == SortedDescUnstable(CounterOf(list))
  IN SubSeq(s, 1, IF Len(s) < n THEN Len(s) ELSE n)

\* Counter(list).most_common(n)
MostCommon(list, n) ==
  LET s == SortedDesc(CounterOf(list))
  IN SubSeq(s, 1, IF Len(s) < n THEN Len(s) ELSE n)

\* the filter with the bound one too low, and one too high
ValidOfAtLeastOne(raw) == SelectSeq(raw, LAMBDA e : e[2] >= 1)
ValidOfMoreThanTwo(raw) == SelectSeq(raw, LAMBDA e : e[2] > 2)

\* [(name, count) for name, count in raw_intersections if count > 1]
ValidOf(raw) == SelectSeq(raw, LAMBDA e : e[2] > 1)

(***************************************************************************)
(* The loop of generate_dashboard_html over df['street_address'].dropna()  *)
(***************************************************************************)
\* df['street_address']
Column(df) == [k \in 1..Len(df) |-> df[k].street_address]

\* df['street_address'] raises KeyError when no record has the key
HasColumn(df) == \E k \in 1..Len(df) : df[k].street_address # ABSENT

\* Series.dropna()
DropNa(col) == SelectSeq(col, LAMBDA x : ~IsNa(x))

\* the addresses appended to intersections, in order
IntersectionsOf(col) ==
  SelectSeq([k \in 1..Len(col) |-> UpperStrip(col[k])], IsIntersection)

\* the cleaned names appended to street_names, in order
StreetNamesOf(col) ==
  LET streets == SelectSeq([k \in 1..Len(col) |-> UpperStrip(col[k])],
                           LAMBDA a : ~IsIntersection(a))
  IN [k \in 1..Len(streets) |-> CleanStreet(streets[k])]

(***************************************************************************)
(* State                                                                   *)
(***************************************************************************)
\* position of the module-level code
VARIABLE pc
\* what requests.get answered: status_code and json()
VARIABLE response
\* the value fetch_data() returned
VARIABLE data
\* the layers added to the folium map, in order
VARIABLE lr_map
\* the documents written to map.html, in order
VARIABLE map_html
\* the documents written to stats.html, in order
VARIABLE stats_html
\* the list street_names at the end of the loop
VARIABLE street_names
\* the list intersections at the end of the loop
VARIABLE intersections
\* Counter(street_names).most_common(10)
VARIABLE top_streets
\* the intersections kept by the count > 1 filter
VARIABLE valid_intersections
\* one cell of df['street_address'].dropna()
VARIABLE raw_address
\* the loop variable after upper().strip()
VARIABLE address
\* the list the address was appended to
VARIABLE category
\* the string that was appended
VARIABLE group_key
\* position inside one iteration of the loop
VARIABLE step

progVars ==
  <<pc, response, data, lr_map, map_html, stats_html, street_names,
    intersections, top_streets, valid_intersections>>
loopVars == <<raw_address, address, category, group_key, step>>
vars == <<progVars, loopVars>>

NoResponse == [status_code |-> 0, json |-> <<>>]

\* the module-level code before its first statement
ProgInit ==
  /\ pc = "fetch"
  /\ response = NoResponse
  /\ data = <<>>
  /\ lr_map = <<>>
  /\ map_html = <<>>
  /\ stats_html = <<>>
  /\ street_names = <<>>
  /\ intersections = <<>>
  /\ top_streets = <<>>
  /\ valid_intersections = <<>>

\* no iteration of the loop is being followed
LoopIdle ==
  /\ raw_address = <<>>
  /\ address = <<>>
  /\ category = "none"
  /\ group_key = <<>>
  /\ step = "idle"

Init == ProgInit /\ LoopIdle

(***************************************************************************)
(* fetch_data and the module-level code                                    *)
(***************************************************************************)
\* data = fetch_data(): a status other than 200 returns [], an empty record
\* list ends the program inside fetch_data, anything else is returned
FetchData ==
  /\ pc = "fetch"
  /\ \E status \in {StatusOK, 404, 500} :
       \E body \in (IF status = StatusOK THEN Inputs ELSE {<<>>}) :
         /\ response' = [status_code |-> status, json |-> body]
         /\ IF status # StatusOK
            THEN data' = <<>> /\ pc' = "check"
            ELSE IF body = <<>>
                 THEN data' = data /\ pc' = "exited"
                 ELSE data' = body /\ pc' = "check"
  /\ UNCHANGED <<lr_map, map_html, stats_html, street_names, intersections,
                 top_streets, valid_intersections, loopVars>>

\* if not data: exit(); otherwise the data frame and the empty map are built
CheckData ==
  /\ pc = "check"
  /\ IF data = <<>> THEN pc' = "exited" ELSE pc' = "add_markers"
  /\ lr_map' = <<>>
  /\ UNCHANGED <<response, data, map_html, stats_html, street_names,
                 intersections, top_streets, valid_intersections, loopVars>>

\* float(row['latitude']), float(row['longitude']) succeed
HasCoords(row) == row.latitude = CoordOK

\* the rows of df whose coordinates convert, in order
Located(df) == SelectSeq(df, HasCoords)

\* add_markers(): one marker cluster with a marker per located row
AddMarkers ==
  /\ pc = "add_markers"
  /\ lr_map' = Append(lr_map, [layer |-> "MarkerCluster",
                               points |-> Len(Located(data))])
  /\ pc' = "save"
  /\ UNCHANGED <<response, data, map_html, stats_html, street_names,
                 intersections, top_streets, valid_intersections, loopVars>>

\* add_heat_clouds(): one heat layer over the located rows; the module-level
\* code never calls it, so it is no disjunct of Next
AddHeatClouds ==
  /\ lr_map' = Append(lr_map, [layer |-> "HeatMap",
                               points |-> Len(Located(data))])
  /\ UNCHANGED <<pc, response, data, map_html, stats_html, street_names,
                 intersections, top_streets, valid_intersections, loopVars>>

\* lr_map.save("map.html")
SaveMap ==
  /\ pc = "save"
  /\ map_html' = Append(map_html, lr_map)
  /\ pc' = "dashboard"
  /\ UNCHANGED <<response, data, lr_map, stats_html, street_names,
                 intersections, top_streets, valid_intersections, loopVars>>

\* generate_dashboard_html(df): KeyError when the column is missing, else
\* the two lists, the two rankings and the write of stats.html
GenerateDashboard ==
  /\ pc = "dashboard"
  /\ IF ~HasColumn(data)
     THEN /\ pc' = "crashed"
          /\ UNCHANGED <<stats_html, street_names, intersections, top_streets,
                         valid_intersections>>
     ELSE LET col == DropNa(Column(data))
              names == StreetNamesOf(col)
              inters == IntersectionsOf(col)
              streets == MostCommon(names, TopStreets)
              valid == ValidOf(MostCommon(inters, TopIntersections))
          IN /\ street_names' = names
             /\ intersections' = inters
             /\ top_streets' = streets
             /\ valid_intersections' = valid
             /\ stats_html' = Append(stats_html,
                                     [total_potholes |-> Len(data),
                                      streets |-> streets,
                                      intersections |-> valid])
             /\ pc' = "done"
  /\ UNCHANGED <<response, data, lr_map, map_html, loopVars>>

Next ==
  \/ FetchData
  \/ CheckData
  \/ AddMarkers
  \/ SaveMap
  \/ GenerateDashboard

Spec == Init /\ [][Next]_vars

(***************************************************************************)
(* generate_dashboard_html as a function of its argument                   *)
(***************************************************************************)
\* the function is entered with any data frame, the empty one included
AggInit ==
  /\ pc = "dashboard"
  /\ data \in Inputs
  /\ response = [status_code |-> StatusOK, json |-> data]
  /\ lr_map = <<>>
  /\ map_html = <<>>
  /\ stats_html = <<>>
  /\ street_names = <<>>
  /\ intersections = <<>>
  /\ top_streets = <<>>
  /\ valid_intersections = <<>>
  /\ LoopIdle

AggNext == GenerateDashboard

SpecAgg == AggInit /\ [][AggNext]_vars

(***************************************************************************)
(* One iteration of the loop, on one non-null address                      *)
(***************************************************************************)
NormInit ==
  /\ ProgInit
  /\ raw_address \in Addresses
  /\ address = <<>>
  /\ category = "none"
  /\ group_key = <<>>
  /\ step = "raw"

\* address = str(address).upper().strip()
Normalise ==
  /\ step = "raw"
  /\ address' = UpperStrip(raw_address)
  /\ step' = "normalised"
  /\ UNCHANGED <<raw_address, category, group_key, progVars>>

\* the if/else that appends to intersections or to street_names
Classify ==
  /\ step = "normalised"
  /\ IF IsIntersection(address)
     THEN category' = "intersection" /\ group_key' = address
     ELSE category' = "street" /\ group_key' = CleanStreet(address)
  /\ step' = "appended"
  /\ UNCHANGED <<raw_address, address, progVars>>

NormNext == Normalise \/ Classify

SpecNorm == NormInit /\ [][NormNext]_vars

(***************************************************************************)
(* Vocabulary of the properties, stated on the input rather than computed  *)
(* by the operators of the loop                                            *)
(***************************************************************************)
\* u contains '&' or '/' or the five characters ' AND '
HasSeparator(u) ==
  \/ \E k \in 1..Len(u) : u[k] = "&" \/ u[k] = "/"
  \/ \E k \in 1..(Len(u) - 4) :
       /\ u[k] = " " /\ u[k + 1] = "A" /\ u[k + 2] = "N" /\ u[k + 3] = "D"
       /\ u[k + 4] = " "

\* c is r, or the capital of the small letter r
IsUpperOf(c, r) ==
  /\ ~IsLower(c)
  /\ c = r \/ \E k \in 1..26 : LowerCase[k] = r /\ UpperCase[k] = c

\* u is raw in capitals without the whitespace around it
IsUpperTrimOf(u, raw) ==
  /\ u # <<>> => u[1] \notin WhiteSpace /\ u[Len(u)] \notin WhiteSpace
  /\ \E lo \in 0..Len(raw) :
       /\ lo + Len(u) <= Len(raw)
       /\ \A k \in 1..Len(u) : IsUpperOf(u[k], raw[lo + k])
       /\ \A k \in 1..Len(raw) :
            (k <= lo \/ k > lo + Len(u)) => raw[k] \in WhiteSpace

\* length of the house number of u: the leading digits and the whitespace
\* behind them, 0 when u does not start with digits followed by whitespace
HouseNumberLen(u) ==
  LET ends == {n \in 2..Len(u) :
                 /\ \E d \in 1..(n - 1) :
                      /\ \A k \in 1..d : u[k] \in Digits
                      /\ \A k \in (d + 1)..n : u[k] \in WhiteSpace
                 /\ n < Len(u) => u[n + 1] \notin WhiteSpace}
  IN IF ends = {} THEN 0 ELSE CHOOSE n \in ends : TRUE

\* s without the characters of any occurrence of 'BLOCK OF '
WithoutBlockOf(s) ==
  LET starts == {k \in 1..Len(s) : k + 8 <= Len(s)
                                   /\ SubSeq(s, k, k + 8) = sBLOCKOF}
      kept == SelectSeq([i \in 1..Len(s) |-> i],
                        LAMBDA i : ~\E k \in starts : k <= i /\ i <= k + 8)
  IN [j \in 1..Len(kept) |-> s[kept[j]]]

\* the street key the specification describes for the trimmed capitals u
ExpectedStreetKey(u) ==
  WithoutBlockOf(SubSeq(u, HouseNumberLen(u) + 1, Len(u)))

\* the rows of data that carry an address
AddressRows == {k \in 1..Len(data) : ~IsNa(data[k].street_address)}

\* the group key of row k
KeyOfRow(k) ==
  LET u == UpperStrip(data[k].street_address)
  IN IF HasSeparator(u) THEN u ELSE ExpectedStreetKey(u)

StreetRows ==
  {k \in AddressRows : ~HasSeparator(UpperStrip(data[k].street_address))}
IntersectionRows == AddressRows \ StreetRows

StreetKeys == {KeyOfRow(k) : k \in StreetRows}
IntersectionKeys == {KeyOfRow(k) : k \in IntersectionRows}

\* how often a key occurs among the rows rows, and where it occurs first
CountIn(rows, key) == Cardinality({k \in rows : KeyOfRow(k) = key})
FirstSeenIn(rows, key) ==
  CHOOSE k \in rows :
    KeyOfRow(k) = key /\ \A m \in rows : KeyOfRow(m) = key => k <= m

\* the keys that rank ahead of key: a higher count, or the same count and
\* seen first
AheadOf(rows, keys, key) ==
  {o \in keys :
     \/ CountIn(rows, o) > CountIn(rows, key)
     \/ /\ CountIn(rows, o) = CountIn(rows, key)
        /\ FirstSeenIn(rows, o) < FirstSeenIn(rows, key)}

Finished == pc \in {"exited", "done", "crashed"}

(***************************************************************************)
(* Properties                                                              *)
(***************************************************************************)
\* C1: the loop variable is the address in capitals and trimmed; it is
\* appended to intersections exactly when it contains '&', ' AND ' or '/',
\* and then it is appended unchanged; otherwise it is a street; it is never
\* both.
C1_Classification ==
  step = "appended" =>
    /\ IsUpperTrimOf(address, raw_address)
    /\ category \in {"intersection", "street"}
    /\ category = "intersection" <=> HasSeparator(address)
    /\ category = "intersection" => group_key = address

\* C1 witness: 'Main St and 5th St' became the intersection key
\* 'MAIN ST AND 5TH ST'
C1_Witness ==
  /\ step = "appended"
  /\ raw_address = aMainAnd5th
  /\ category = "intersection"
  /\ group_key = Upper(aMainAnd5th)

\* C2: the key of a street is the address without its one leading house
\* number and without the characters of every 'BLOCK OF '; '123 BLOCK OF
\* MAIN ST' gives 'MAIN ST'.
C2_StreetKey ==
  (step = "appended" /\ category = "street") =>
    /\ group_key = ExpectedStreetKey(address)
    /\ raw_address = aBlockOfMain => group_key = kMain

\* C2 witness: an address with a house number and two 'BLOCK OF ' was cleaned
C2_Witness ==
  /\ step = "appended"
  /\ category = "street"
  /\ raw_address = aBlockTwice
  /\ group_key = <<"E","L","M">>

\* C3: a null or empty address adds nothing to either list, so the two lists
\* together hold one entry per row whose address is neither null nor empty.
C3_NullOrEmptySkipped ==
  pc = "done" =>
    Len(street_names) + Len(intersections)
      = Cardinality({k \in AddressRows : data[k].street_address # <<>>})

\* C4: the street ranking has at most 10 entries, they are distinct street
\* keys, no key left out has a higher count than a key in it, the counts
\* descend, and keys with equal counts stand in first-seen order.
C4_StreetRanking ==
  pc = "done" =>
    /\ Len(top_streets) <= 10
    /\ Len(top_streets) = 10 \/ Len(top_streets) = Cardinality(StreetKeys)
    /\ \A i \in 1..Len(top_streets) : top_streets[i][1] \in StreetKeys
    /\ \A i, j \in 1..Len(top_streets) :
         i < j =>
           /\ top_streets[i][1] # top_streets[j][1]
           /\ top_streets[i][2] >= top_streets[j][2]
           /\ top_streets[i][2] = top_streets[j][2] =>
                FirstSeenIn(StreetRows, top_streets[i][1])
                  < FirstSeenIn(StreetRows, top_streets[j][1])
    /\ \A key \in StreetKeys :
         (\A i \in 1..Len(top_streets) : top_streets[i][1] # key) =>
           \A i \in 1..Len(top_streets) :
             CountIn(StreetRows, key) <= top_streets[i][2]

\* C4 witness: more than 10 street keys, 10 of them ranked
C4_Witness ==
  /\ pc = "done"
  /\ Cardinality(StreetKeys) > 10
  /\ Len(top_streets) = 10

\* C5: every ranked street has a count of at least 1, every ranked
\* intersection a count of at least 2, each count is the number of rows that
\* normalise to the key, and an intersection seen once is not ranked.
C5_Counts ==
  pc = "done" =>
    /\ \A i \in 1..Len(top_streets) :
         /\ top_streets[i][2] >= 1
         /\ top_streets[i][2] = CountIn(StreetRows, top_streets[i][1])
    /\ \A i \in 1..Len(valid_intersections) :
         /\ valid_intersections[i][2] >= 2
         /\ valid_intersections[i][2]
              = CountIn(IntersectionRows, valid_intersections[i][1])
    /\ \A key \in IntersectionKeys :
         CountIn(IntersectionRows, key) = 1 =>
           \A i \in 1..Len(valid_intersections) :
             valid_intersections[i][1] # key

\* C5 witness: one intersection seen once and left out, another one ranked
C5_Witness ==
  /\ pc = "done"
  /\ \E key \in IntersectionKeys : CountIn(IntersectionRows, key) = 1
  /\ valid_intersections # <<>>

\* C6 as stated: every intersection key that occurs exactly twice is in the
\* ranked intersection output with count 2.
C6_TwiceIncluded ==
  pc = "done" =>
    \A key \in IntersectionKeys :
      CountIn(IntersectionRows, key) = 2 =>
        \E i \in 1..Len(valid_intersections) :
          valid_intersections[i] = <<key, 2>>

\* C6 as amended: an intersection key that occurs exactly twice is in the
\* ranked intersection output, with count 2, exactly when fewer than 10
\* intersection keys rank ahead of it (a higher count, or the same count and
\* seen first): the count filter comes after the cutoff.
C6_TwiceIncludedWithinCutoff ==
  pc = "done" =>
    \A key \in IntersectionKeys :
      CountIn(IntersectionRows, key) = 2 =>
        ((Cardinality(AheadOf(IntersectionRows, IntersectionKeys, key)) < 10)
           <=> \E i \in 1..Len(valid_intersections) :
                 valid_intersections[i] = <<key, 2>>)

\* C6 witness: more than 10 intersection keys, one seen twice is ranked
C6_Witness ==
  /\ pc = "done"
  /\ Cardinality(IntersectionKeys) > 10
  /\ \E i \in 1..Len(valid_intersections) : valid_intersections[i][2] = 2

C8_SameStreet ==
  pc = "done" =>
    /\ Cardinality({p \in 1..Len(street_names) : street_names[p] = kMarkham})
         >= Cardinality({k \in 1..Len(data) :
                           data[k].street_address
                             \in {aMarkham1200, aMarkham1201}})
    /\ data = <<Rec(aMarkham1200, CoordOK), Rec(aMarkham1201, CoordOK)>>
         => top_streets = << <<kMarkham, 2>> >>

\* C8 witness: the two addresses were aggregated into one entry
C8_Witness ==
  /\ pc = "done"
  /\ data = <<Rec(aMarkham1200, CoordOK), Rec(aMarkham1201, CoordOK)>>
  /\ top_streets = << <<kMarkham, 2>> >>

\* C9: every document written to map.html holds the marker layer and the
\* heat layer.
C9_BothLayers ==
  \A n \in 1..Len(map_html) :
    /\ \E i \in 1..Len(map_html[n]) : map_html[n][i].layer = "MarkerCluster"
    /\ \E i \in 1..Len(map_html[n]) : map_html[n][i].layer = "HeatMap"

\* C10: a run whose fetch answered with a status other than 200 or with no
\* record ends with neither file written; every other run ends with map.html
\* and stats.html written once each; stats.html is never written before
\* map.html.
C10_FilesWritten ==
  /\ stats_html # <<>> => map_html # <<>>
  /\ Finished =>
       IF response.status_code # StatusOK \/ response.json = <<>>
       THEN map_html = <<>> /\ stats_html = <<>>
       ELSE Len(map_html) = 1 /\ Len(stats_html) = 1

====
